---- MODULE Spec2Model ----
(***************************************************************************)
(* Model of parse() in metadata_parse.py: the single-pass reducer that     *)
(* folds the lines of a platypus log into the meta_data series.            *)
(*                                                                         *)
(* Numbers.  Timestamps are whole seconds (offset_ms a multiple of 1000),  *)
(* coordinates and voltages are integers, so every float sum, difference   *)
(* and comparison the code performs on them is exact and is modelled by    *)
(* integer arithmetic.  A least-squares slope is a rational, kept as a     *)
(* reduced fraction <<num, den>>; velocity_over_ground, the norm of two    *)
(* slopes a/d and b/d, is kept as <<|a|, |b|, d>> standing for             *)
(* sqrt(a^2 + b^2)/d.                                                      *)
(*                                                                         *)
(* JSON values are records tagged with their Python type: [t |-> "str"],   *)
(* [t |-> "bool"], [t |-> "num"], [t |-> "dict"].  An entry (the decoded   *)
(* payload of a line) is the sequence of its <<key, value>> items in       *)
(* iteration order.                                                        *)
(***************************************************************************)
EXTENDS Integers, Sequences, FiniteSets, TLC

\* ------------------------------------------------------------- constants
TIME_STEP == 10
EC_IN_WATER_CUTOFF == 100
DANGER_VOLTAGE == 14
VOLTAGE_MEDIAN_WINDOW == 500
VELOCITY_WINDOW == 50
SECONDS_PER_HOUR == 3600

\* ---------------------------------------------------------------- bounds
\* Lines of the log read by a run of Spec.
MaxLines == 3
\* In a run of SpecRun a stream of readings is steady (the line before it
\* repeated) but for its first FreeHead pushes and for those from the one
\* that fills the window on, TailPushes more past that one.
FreeHead == 2
TailPushes == 2

VARIABLES
    has_first_gps, in_water, rc_on, is_autonomous,
    home_pose, current_pose, current_time, time_since_accumulation,
    voltage_median_window, voltage_time_window, voltage_drain_rate_initialized,
    pose_window, velocity_time_window, velocity_initialized,
    first_easting, first_northing,
    meta_data,
    dt, distance_traveled, entry,
    lineno, status,
    voltage_pushes, pose_pushes

vars == << has_first_gps, in_water, rc_on, is_autonomous,
           home_pose, current_pose, current_time, time_since_accumulation,
           voltage_median_window, voltage_time_window, voltage_drain_rate_initialized,
           pose_window, velocity_time_window, velocity_initialized,
           first_easting, first_northing,
           meta_data,
           dt, distance_traveled, entry,
           lineno, status,
           voltage_pushes, pose_pushes >>

\* ------------------------------------------------------------- utilities
Last(s) == s[Len(s)]

Abs(x) == IF x < 0 THEN -x ELSE x

RECURSIVE GCD(_, _)
GCD(a, b) == IF b = 0 THEN Abs(a) ELSE GCD(Abs(b), Abs(a) % Abs(b))

\* The fraction n/d (d # 0) in lowest terms with a positive denominator.
Frac(n, d) ==
    LET g == GCD(n, d)
        sg == IF d < 0 THEN -1 ELSE 1
    IN  << sg * (n \div g), sg * (d \div g) >>

\* np.sqrt on an integer that is a perfect square (floor otherwise).
ISqrt(n) == CHOOSE r \in 0..n : r * r <= n /\ (r + 1) * (r + 1) > n

RECURSIVE SumSet(_, _)
\* Sum of f[x] over the finite set S.
SumSet(S, f) ==
    IF S = {} THEN 0
    ELSE LET x == CHOOSE y \in S : TRUE
         IN  f[x] + SumSet(S \ {x}, f)

\* Sum of the entries of the sequence w, by counting equal entries.
SumSeq(w) ==
    LET vals == { w[i] : i \in DOMAIN w }
        term == [ x \in vals |-> x * Cardinality({ i \in DOMAIN w : w[i] = x }) ]
    IN  SumSet(vals, term)

\* ------------------------------------------------------------ JSON values
Str(x) == [ t |-> "str", v |-> x ]
Bool(b) == [ t |-> "bool", v |-> b ]
Num(n) == [ t |-> "num", v |-> n ]
PoseValue(e, n) == [ t |-> "dict", p |-> << e, n >> ]
SensorValue(type, data) == [ t |-> "dict", type |-> type, data |-> data ]

\* Python's  v == "true"  for a decoded JSON value v.
EqTrueLiteral(v) == v.t = "str" /\ v.v = "true"

\* dist(a, b) for two pairs.
dist(a, b) ==
    ISqrt((a[1] - b[1]) * (a[1] - b[1]) + (a[2] - b[2]) * (a[2] - b[2]))

\* _REGEX_FLOAT.findall(v): the string v is given as its sequence of
\* maximal tokens, a number where the pattern matches, text elsewhere; the
\* result holds the numbers in order.
Flt(x) == [ k |-> "float", v |-> x ]
Txt == [ k |-> "text", v |-> 0 ]
FindFloats(tokens) ==
    LET found == SelectSeq(tokens, LAMBDA tok : tok.k = "float")
    IN  [ i \in DOMAIN found |-> found[i].v ]

\* ---------------------------------------------------------------- series
SeriesNames == {
    "time_elapsed_total", "time_elapsed_rc", "time_elapsed_auto",
    "time_elapsed_in_water", "time_elapsed_out_water",
    "distance_traveled_total", "distance_traveled_rc", "distance_traveled_auto",
    "distance_from_home_location", "velocity_over_ground",
    "velocity_surge", "velocity_sway",
    "battery_voltage", "battery_voltage_median", "battery_voltage_drain_rate",
    "cumulative_motor_action_total", "cumulative_motor_action_rc",
    "cumulative_motor_action_auto", "rc_override_switch_count" }

\* The float 0.0 as each series holds it.
Seed(k) ==
    IF k = "velocity_over_ground" THEN << 0, 0, 1 >>
    ELSE IF k = "battery_voltage_drain_rate" THEN << 0, 1 >>
    ELSE 0

InitMetaData == [ k \in SeriesNames |-> << Seed(k) >> ]

\* SetLast writing the first entry of the series.
SetLastWritesFirst(md, k, x) == [ md EXCEPT ![k] = [ @ EXCEPT ![1] = x ] ]

\* meta_data[k][-1] = x
SetLast(md, k, x) == [ md EXCEPT ![k] = [ @ EXCEPT ![Len(@)] = x ] ]

\* meta_data[k][-1] += x
AddLast(md, k, x) == [ md EXCEPT ![k] = [ @ EXCEPT ![Len(@)] = @ + x ] ]

\* GridTick leaving one series out of the loop.
GridTickSkipsOne(md) ==
    [ k \in DOMAIN md |->
        IF k = "velocity_sway" THEN md[k] ELSE Append(md[k], Last(md[k])) ]

\* for k in meta_data: meta_data[k].append(meta_data[k][-1])
GridTick(md) == [ k \in DOMAIN md |-> Append(md[k], Last(md[k])) ]

\* -------------------------------------------------------- sliding windows
\* Push without the del.
PushNoEvict(window, x) == Append(window, x)

\* del window[0]; window.append(x)
Push(window, x) == Append(Tail(window), x)

\* k-th smallest entry of w (1-based), by counting.
Kth(w, k) ==
    LET vals == { w[i] : i \in DOMAIN w }
        upTo(x) == Cardinality({ i \in DOMAIN w : w[i] <= x })
    IN  CHOOSE x \in vals :
            /\ upTo(x) >= k
            /\ \A y \in vals : y < x => upTo(y) < k

\* Median over the non-zero entries only.
MedianIgnoringZeros(w) ==
    LET nz == SelectSeq(w, LAMBDA x : x # 0)
        n  == Len(nz)
    IN  IF n = 0 THEN 0
        ELSE IF n % 2 = 1 THEN Kth(nz, (n + 1) \div 2)
        ELSE (Kth(nz, n \div 2) + Kth(nz, n \div 2 + 1)) \div 2

\* np.median(w): the middle entry of the sorted window, or the mean of the
\* two middle entries when the length is even (the readings of the model
\* are an even number of volts apart, so that mean is a whole number).
Median(w) ==
    LET n == Len(w)
    IN  IF n % 2 = 1 THEN Kth(w, (n + 1) \div 2)
        ELSE (Kth(w, n \div 2) + Kth(w, n \div 2 + 1)) \div 2

\* Numerator and denominator of the slope np.linalg.lstsq(A, y)[0][0] for
\* A = [t, 1]: the ordinary least-squares slope when the times are not all
\* equal, and the minimum-norm solution mean(y)*c/(c^2+1) when every time
\* equals c (A has rank 1).
SlopeParts(t, y) ==
    LET n   == Len(t)
        St  == SumSeq(t)
        Sy  == SumSeq(y)
        Stt == SumSeq([ i \in DOMAIN t |-> t[i] * t[i] ])
        Sty == SumSeq([ i \in DOMAIN t |-> t[i] * y[i] ])
        den == n * Stt - St * St
    IN  IF den # 0 THEN << n * Sty - St * Sy, den >>
        ELSE << t[1] * Sy, n * (t[1] * t[1] + 1) >>

\* voltage_drain_rate*3600 for the fit of the voltage window against time.
DrainRate(t, y) ==
    LET sl == SlopeParts(t, y)
        f  == Frac(sl[1], sl[2])
        g  == GCD(SECONDS_PER_HOUR, f[2])
    IN  << f[1] * (SECONDS_PER_HOUR \div g), f[2] \div g >>

\* np.sqrt(velE^2 + velN^2) for the fits of easting and northing, each
\* translated by the first pose, against time: <<|a|, |b|, d>> stands for
\* sqrt(a^2 + b^2)/d.
Velocity(t, poses, fe, fn) ==
    LET E  == [ i \in DOMAIN poses |-> poses[i][1] - fe ]
        N  == [ i \in DOMAIN poses |-> poses[i][2] - fn ]
        sE == SlopeParts(t, E)
        sN == SlopeParts(t, N)
        g  == GCD(GCD(sE[1], sN[1]), sE[2])
    IN  << Abs(sE[1]) \div g, Abs(sN[1]) \div g, Abs(sE[2]) \div g >>

\* VoltageGate looking at the newest slot.
VoltageGateNewest(window) == Last(window) # 0

\* The gate of line 210: the oldest slot of the value window is not zero.
VoltageGate(window) == window[1] # 0

\* VelocityGate looking at the newest slot.
VelocityGateNewest(time_window) == Last(time_window) # 0

\* The gate of line 164: the oldest slot of the time window is not zero.
VelocityGate(time_window) == time_window[1] # 0

\* ------------------------------------------------------------ parse state
\* The locals of parse() as one record, threaded through the loop body.
State ==
    [ has_first_gps |-> has_first_gps, in_water |-> in_water,
      rc_on |-> rc_on, is_autonomous |-> is_autonomous,
      home_pose |-> home_pose, current_pose |-> current_pose,
      current_time |-> current_time,
      time_since_accumulation |-> time_since_accumulation,
      voltage_median_window |-> voltage_median_window,
      voltage_time_window |-> voltage_time_window,
      voltage_drain_rate_initialized |-> voltage_drain_rate_initialized,
      pose_window |-> pose_window,
      velocity_time_window |-> velocity_time_window,
      velocity_initialized |-> velocity_initialized,
      first_easting |-> first_easting, first_northing |-> first_northing,
      meta_data |-> meta_data,
      dt |-> dt, distance_traveled |-> distance_traveled, entry |-> entry,
      lineno |-> lineno, status |-> status,
      voltage_pushes |-> voltage_pushes, pose_pushes |-> pose_pushes ]

\* The next state is the record s.
Becomes(s) ==
    /\ has_first_gps' = s.has_first_gps
    /\ in_water' = s.in_water
    /\ rc_on' = s.rc_on
    /\ is_autonomous' = s.is_autonomous
    /\ home_pose' = s.home_pose
    /\ current_pose' = s.current_pose
    /\ current_time' = s.current_time
    /\ time_since_accumulation' = s.time_since_accumulation
    /\ voltage_median_window' = s.voltage_median_window
    /\ voltage_time_window' = s.voltage_time_window
    /\ voltage_drain_rate_initialized' = s.voltage_drain_rate_initialized
    /\ pose_window' = s.pose_window
    /\ velocity_time_window' = s.velocity_time_window
    /\ velocity_initialized' = s.velocity_initialized
    /\ first_easting' = s.first_easting
    /\ first_northing' = s.first_northing
    /\ meta_data' = s.meta_data
    /\ dt' = s.dt
    /\ distance_traveled' = s.distance_traveled
    /\ entry' = s.entry
    /\ lineno' = s.lineno
    /\ status' = s.status
    /\ voltage_pushes' = s.voltage_pushes
    /\ pose_pushes' = s.pose_pushes

\* Lines 82-119: the locals before the first line is read.
Init ==
    /\ has_first_gps = FALSE
    /\ in_water = FALSE
    /\ rc_on = FALSE
    /\ is_autonomous = FALSE
    /\ home_pose = << 0, 0 >>
    /\ current_pose = << 0, 0 >>
    /\ current_time = 0
    /\ time_since_accumulation = 0
    /\ voltage_median_window = [ i \in 1..VOLTAGE_MEDIAN_WINDOW |-> 0 ]
    /\ voltage_time_window = [ i \in 1..VOLTAGE_MEDIAN_WINDOW |-> 0 ]
    /\ voltage_drain_rate_initialized = FALSE
    /\ pose_window = [ i \in 1..VELOCITY_WINDOW |-> << 0, 0 >> ]
    /\ velocity_time_window = [ i \in 1..VELOCITY_WINDOW |-> 0 ]
    /\ velocity_initialized = FALSE
    /\ first_easting = 0
    /\ first_northing = 0
    /\ meta_data = InitMetaData
    /\ dt = 0
    /\ distance_traveled = 0
    /\ entry = << >>
    /\ lineno = 0
    /\ status = "running"
    /\ voltage_pushes = 0
    /\ pose_pushes = 0

\* ------------------------------------------------------------ loop body
\* StepPassed with >= for >.
StepPassedAtStep(since) == since >= TIME_STEP

\* Whether time_since_accumulation, the line's dt added, passes the step.
StepPassed(since) == since > TIME_STEP

\* Advance with dt taken as the timestamp itself.
AdvanceDtIsTimestamp(s, ts) ==
    LET since == s.time_since_accumulation + ts
        tick  == StepPassed(since)
    IN  [ s EXCEPT !.dt = ts,
                   !.current_time = ts,
                   !.time_since_accumulation = IF tick THEN 0 ELSE since,
                   !.meta_data = IF tick THEN GridTick(@) ELSE @,
                   !.distance_traveled = 0 ]

\* Advance carrying the overshoot past the step into the next interval.
AdvanceKeepsOvershoot(s, ts) ==
    LET d     == ts - s.current_time
        since == s.time_since_accumulation + d
        tick  == StepPassed(since)
    IN  [ s EXCEPT !.dt = d,
                   !.current_time = ts,
                   !.time_since_accumulation = IF tick THEN since - TIME_STEP ELSE since,
                   !.meta_data = IF tick THEN GridTick(@) ELSE @,
                   !.distance_traveled = 0 ]

\* Lines 126-135: dt, the clock, the grid tick, distance_traveled = 0.0.
Advance(s, ts) ==
    LET d     == ts - s.current_time
        since == s.time_since_accumulation + d
        tick  == StepPassed(since)
    IN  [ s EXCEPT !.dt = d,
                   !.current_time = ts,
                   !.time_since_accumulation = IF tick THEN 0 ELSE since,
                   !.meta_data = IF tick THEN GridTick(@) ELSE @,
                   !.distance_traveled = 0 ]

\* SetFlags counting the changes of rc_override in rc_override_switch_count.
SetFlagsCountsSwitches(s, k, v) ==
    [ s EXCEPT !.has_first_gps = IF k = "has_first_gps" THEN EqTrueLiteral(v) ELSE @,
               !.is_autonomous = IF k = "is_autonomous" THEN EqTrueLiteral(v) ELSE @,
               !.rc_on = IF k = "rc_override" THEN EqTrueLiteral(v) ELSE @,
               !.meta_data = IF k = "rc_override" /\ EqTrueLiteral(v) # s.rc_on
                             THEN AddLast(@, "rc_override_switch_count", 1)
                             ELSE @ ]

\* Lines 141-146: the three flag keys.
SetFlags(s, k, v) ==
    [ s EXCEPT !.has_first_gps = IF k = "has_first_gps" THEN EqTrueLiteral(v) ELSE @,
               !.is_autonomous = IF k = "is_autonomous" THEN EqTrueLiteral(v) ELSE @,
               !.rc_on = IF k = "rc_override" THEN EqTrueLiteral(v) ELSE @ ]

\* Lines 149-184: a pose item.
OnPose(s, v, ts) ==
    LET new_pose == << v.p[1], v.p[2] >>
        pw    == Push(s.pose_window, new_pose)
        tw    == Push(s.velocity_time_window, ts)
        opens == ~s.velocity_initialized /\ VelocityGate(tw)
        ready == s.velocity_initialized \/ opens
        fe    == IF opens THEN new_pose[1] ELSE s.first_easting
        fn    == IF opens THEN new_pose[2] ELSE s.first_northing
        md1   == SetLast(s.meta_data, "distance_from_home_location",
                         dist(new_pose, s.home_pose))
        md2   == IF ready
                 THEN SetLast(md1, "velocity_over_ground", Velocity(tw, pw, fe, fn))
                 ELSE md1
    IN  [ s EXCEPT !.meta_data = md2,
                   !.distance_traveled = dist(new_pose, s.current_pose),
                   !.current_pose = new_pose,
                   !.pose_window = pw,
                   !.velocity_time_window = tw,
                   !.velocity_initialized = ready,
                   !.first_easting = fe,
                   !.first_northing = fn,
                   !.pose_pushes = @ + 1 ]

\* OnHomePose without the reset of current_pose.
OnHomePoseKeepsCurrent(s, v) ==
    LET m == FindFloats(v.v)
    IN  [ s EXCEPT !.home_pose = << m[1], m[2] >> ]

\* Lines 187-189: a home_pose item.
OnHomePose(s, v) ==
    LET m == FindFloats(v.v)
        home == << m[1], m[2] >>
    IN  [ s EXCEPT !.home_pose = home, !.current_pose = home ]

\* OnGpsItems without the has_first_gps guard.
OnGpsItemsUnguarded(s, k, v, ts) ==
    LET s1 == IF k = "pose" THEN OnPose(s, v, ts) ELSE s
    IN  IF k = "home_pose" THEN OnHomePose(s1, v) ELSE s1

\* Lines 147-189: the items handled only under has_first_gps.
OnGpsItems(s, k, v, ts) ==
    IF s.has_first_gps
    THEN LET s1 == IF k = "pose" THEN OnPose(s, v, ts) ELSE s
         IN  IF k = "home_pose" THEN OnHomePose(s1, v) ELSE s1
    ELSE s

\* InWater with >= for >.
InWaterAtCutoff(ec) == ec >= EC_IN_WATER_CUTOFF

\* Lines 192-201: an EC_GOSYS reading.
InWater(ec) == ec > EC_IN_WATER_CUTOFF

\* Lines 203-215: a BATTERY reading.
OnBattery(s, data, ts) ==
    LET voltage_above_danger == data - DANGER_VOLTAGE
        vw    == Push(s.voltage_median_window, voltage_above_danger)
        tw    == Push(s.voltage_time_window, ts)
        ready == s.voltage_drain_rate_initialized \/ VoltageGate(vw)
        md1   == SetLast(s.meta_data, "battery_voltage", voltage_above_danger)
        md2   == SetLast(md1, "battery_voltage_median", Median(vw))
        md3   == IF ready
                 THEN SetLast(md2, "battery_voltage_drain_rate", DrainRate(tw, vw))
                 ELSE md2
    IN  [ s EXCEPT !.meta_data = md3,
                   !.voltage_median_window = vw,
                   !.voltage_time_window = tw,
                   !.voltage_drain_rate_initialized = ready,
                   !.voltage_pushes = @ + 1 ]

\* Lines 190-215: a sensor item.
OnSensor(s, v, ts) ==
    LET s1 == IF v.type = "EC_GOSYS"
              THEN [ s EXCEPT !.in_water = InWater(v.data) ]
              ELSE s
    IN  IF v.type = "BATTERY" THEN OnBattery(s1, v.data, ts) ELSE s1

\* Lines 141-219: one item of the entry.
OnItem(s, k, v, ts) ==
    LET s1 == SetFlags(s, k, v)
        s2 == OnGpsItems(s1, k, v, ts)
    IN  IF k = "sensor" THEN OnSensor(s2, v, ts) ELSE s2

RECURSIVE OnEntry(_, _, _)
\* Line 140: the items of the entry in iteration order.
OnEntry(s, items, ts) ==
    IF items = << >> THEN s
    ELSE OnEntry(OnItem(s, items[1][1], items[1][2], ts), Tail(items), ts)

\* ModeCredit with `if` for `elif`: both pairs credited under both flags.
ModeCreditBoth(s) ==
    LET md1 == IF s.rc_on
               THEN AddLast(AddLast(s.meta_data, "time_elapsed_rc", s.dt),
                            "distance_traveled_rc", s.distance_traveled)
               ELSE s.meta_data
    IN  IF s.is_autonomous
        THEN AddLast(AddLast(md1, "time_elapsed_auto", s.dt),
                     "distance_traveled_auto", s.distance_traveled)
        ELSE md1

\* ModeCredit with the branches swapped: autonomous takes priority.
ModeCreditAutoFirst(s) ==
    IF s.is_autonomous
    THEN AddLast(AddLast(s.meta_data, "time_elapsed_auto", s.dt),
                 "distance_traveled_auto", s.distance_traveled)
    ELSE IF s.rc_on
    THEN AddLast(AddLast(s.meta_data, "time_elapsed_rc", s.dt),
                 "distance_traveled_rc", s.distance_traveled)
    ELSE s.meta_data

\* Lines 224-229: the mode pair credited with the line.
ModeCredit(s) ==
    IF s.rc_on
    THEN AddLast(AddLast(s.meta_data, "time_elapsed_rc", s.dt),
                 "distance_traveled_rc", s.distance_traveled)
    ELSE IF s.is_autonomous
    THEN AddLast(AddLast(s.meta_data, "time_elapsed_auto", s.dt),
                 "distance_traveled_auto", s.distance_traveled)
    ELSE s.meta_data

\* WaterCredit without its else branch.
WaterCreditNoElse(md, s) ==
    IF s.in_water THEN AddLast(md, "time_elapsed_in_water", s.dt) ELSE md

\* Lines 231-234: the water accumulator credited with the line.
WaterCredit(md, s) ==
    IF s.in_water THEN AddLast(md, "time_elapsed_in_water", s.dt)
    ELSE AddLast(md, "time_elapsed_out_water", s.dt)

\* Lines 221-234: accumulation into the latest samples.
Accumulate(s) ==
    LET s1 == [ s EXCEPT !.meta_data =
                    AddLast(AddLast(@, "time_elapsed_total", s.dt),
                            "distance_traveled_total", s.distance_traveled) ]
        s2 == [ s1 EXCEPT !.meta_data = ModeCredit(s1) ]
    IN  [ s2 EXCEPT !.meta_data = WaterCredit(@, s2) ]

\* ParseLine passing over a payload json.loads rejects.
ParseLineSkipsBad(ts, decodes, items) ==
    /\ status = "running"
    /\ LET s0 == [ Advance(State, ts) EXCEPT !.lineno = @ + 1 ]
       IN  IF decodes
           THEN Becomes(Accumulate(OnEntry([ s0 EXCEPT !.entry = items ], items, ts)))
           ELSE Becomes(s0)

\* ParseLine accumulating before the items of the line are applied.
ParseLineAccumulatesFirst(ts, decodes, items) ==
    /\ status = "running"
    /\ LET s0 == [ Advance(State, ts) EXCEPT !.lineno = @ + 1 ]
       IN  IF decodes
           THEN Becomes(OnEntry(Accumulate([ s0 EXCEPT !.entry = items ]), items, ts))
           ELSE Becomes([ s0 EXCEPT !.status = "aborted" ])

\* Lines 123-237: one line of the log whose payload decodes to `items`, or
\* (decodes = FALSE) whose payload json.loads rejects.
ParseLine(ts, decodes, items) ==
    /\ status = "running"
    /\ LET s0 == [ Advance(State, ts) EXCEPT !.lineno = @ + 1 ]
       IN  IF decodes
           THEN Becomes(Accumulate(OnEntry([ s0 EXCEPT !.entry = items ], items, ts)))
           ELSE Becomes([ s0 EXCEPT !.status = "aborted" ])

\* ------------------------------------------------------------- the lines
\* Seconds between a line and the one before it.
Gaps == { 5, 25 }

FlagKeys == { "has_first_gps", "is_autonomous", "rc_override" }
FlagValues == { Str("true"), Bool(TRUE), Str("false") }
Poses == { << 3, 4 >>, << 3, 0 >> }
HomeStrings == { << Txt, Flt(3), Txt, Flt(0), Txt >>, << Flt(0), Txt, Flt(4), Flt(9) >> }
EcReadings == { 100, 150 }
BatteryReadings == { 14, 16 }

\* {"<flag key>": v}
FlagLine ==
    \E d \in Gaps, k \in FlagKeys, v \in FlagValues :
        /\ lineno < MaxLines
        /\ ParseLine(current_time + d, TRUE, << << k, v >> >>)

\* {"pose": {"p": [e, n]}}
PoseLine ==
    \E d \in Gaps, p \in Poses :
        /\ lineno < MaxLines
        /\ ParseLine(current_time + d, TRUE, << << "pose", PoseValue(p[1], p[2]) >> >>)

\* {"home_pose": "<text holding two floats>"}
HomePoseLine ==
    \E d \in Gaps, h \in HomeStrings :
        /\ lineno < MaxLines
        /\ ParseLine(current_time + d, TRUE, << << "home_pose", Str(h) >> >>)

\* {"sensor": {"type": "EC_GOSYS", "data": ec}}
EcLine ==
    \E d \in Gaps, ec \in EcReadings :
        /\ lineno < MaxLines
        /\ ParseLine(current_time + d, TRUE,
                     << << "sensor", SensorValue("EC_GOSYS", ec) >> >>)

\* {"sensor": {"type": "BATTERY", "data": raw}}
BatteryLine ==
    \E d \in Gaps, raw \in BatteryReadings :
        /\ lineno < MaxLines
        /\ ParseLine(current_time + d, TRUE,
                     << << "sensor", SensorValue("BATTERY", raw) >> >>)

\* {"cmd": ...}
CmdLine ==
    \E d \in Gaps :
        /\ lineno < MaxLines
        /\ ParseLine(current_time + d, TRUE, << << "cmd", Str("m") >> >>)

\* A line whose payload is not JSON.
BadLine ==
    \E d \in Gaps :
        /\ lineno < MaxLines
        /\ ParseLine(current_time + d, FALSE, << >>)

\* A line with a key parse() does not know, or a sensor of another type.
OtherEntries == { << << "winch", Num(1) >> >>,
                  << << "sensor", SensorValue("DO", 150) >> >> }
OtherLine ==
    \E d \in Gaps, items \in OtherEntries :
        /\ lineno < MaxLines
        /\ ParseLine(current_time + d, TRUE, items)

\* A line whose payload holds two keys.
TwoItemEntries ==
    { << << "has_first_gps", Str("true") >>, << "pose", PoseValue(3, 4) >> >>,
      << << "pose", PoseValue(3, 4) >>, << "has_first_gps", Str("true") >> >>,
      << << "is_autonomous", Str("true") >>, << "rc_override", Str("true") >> >> }
TwoItemLine ==
    \E d \in Gaps, items \in TwoItemEntries :
        /\ lineno < MaxLines
        /\ ParseLine(current_time + d, TRUE, items)

\* Lines 239-265: the log is read to its end and the series are plotted.
ShowPlots ==
    /\ status = "running"
    /\ status' = "shown"
    /\ UNCHANGED << has_first_gps, in_water, rc_on, is_autonomous, home_pose,
                    current_pose, current_time, time_since_accumulation,
                    voltage_median_window, voltage_time_window,
                    voltage_drain_rate_initialized, pose_window,
                    velocity_time_window, velocity_initialized, first_easting,
                    first_northing, meta_data, dt, distance_traveled, entry,
                    lineno, voltage_pushes, pose_pushes >>

Next ==
    \/ FlagLine
    \/ PoseLine
    \/ HomePoseLine
    \/ EcLine
    \/ BatteryLine
    \/ CmdLine
    \/ OtherLine
    \/ TwoItemLine
    \/ BadLine
    \/ ShowPlots

Spec == Init /\ [][Next]_vars

\* ------------------------------------------------------------ long runs
\* SpecRun reads logs long enough to fill a sliding window: a first-fix
\* line, then one stream of pose lines or of BATTERY lines.
RunGaps == { 0, 1 }

\* A push may vary when it is among the first FreeHead of its stream or
\* when the window, of capacity cap, fills with it or is already full.
FreePush(pushes, cap) == pushes < FreeHead \/ pushes >= cap - 1

FixLine ==
    \E d \in RunGaps :
        /\ lineno = 0
        /\ ParseLine(current_time + d, TRUE, << << "has_first_gps", Str("true") >> >>)

PoseStreamLine ==
    \E d \in RunGaps, p \in Poses :
        /\ has_first_gps
        /\ voltage_pushes = 0
        /\ pose_pushes < VELOCITY_WINDOW + TailPushes
        /\ FreePush(pose_pushes, VELOCITY_WINDOW) \/ (d = 0 /\ p = current_pose)
        /\ ParseLine(current_time + d, TRUE, << << "pose", PoseValue(p[1], p[2]) >> >>)

BatteryStreamLine ==
    \E d \in RunGaps, raw \in BatteryReadings :
        /\ pose_pushes = 0
        /\ voltage_pushes < VOLTAGE_MEDIAN_WINDOW + TailPushes
        /\ \/ FreePush(voltage_pushes, VOLTAGE_MEDIAN_WINDOW)
           \/ (d = 0 /\ raw = Last(voltage_median_window) + DANGER_VOLTAGE)
        /\ ParseLine(current_time + d, TRUE,
                     << << "sensor", SensorValue("BATTERY", raw) >> >>)

NextRun ==
    \/ FixLine
    \/ PoseStreamLine
    \/ BatteryStreamLine

SpecRun == Init /\ [][NextRun]_vars

\* ---------------------------------------------------------------- claims
Series(k) == meta_data[k]
Samples == Len(meta_data["time_elapsed_total"])

\* A step that read one more line of the log.
LineRead == lineno' = lineno + 1
\* A step that read a line and applied it (the payload decoded).
LineApplied == LineRead /\ status' = "running"
\* The step's dt, from the clock alone.
StepDt == current_time' - current_time
\* What the step added to series k, counted from the value it carried.
Added(k) == Last(meta_data'[k]) - Last(meta_data[k])

HasKey(items, k) == \E i \in DOMAIN items : items[i][1] = k
\* The entry is the single item <<k, v>> for some v.
OnlyKey(items, k) == Len(items) = 1 /\ items[1][1] = k

\* C1 (lock-step): at the start every series holds exactly its seed 0.0;
\* in every state all series have the same length; and a line lengthens
\* every series by one when its dt takes time_since_accumulation past 10 s,
\* and by nothing otherwise.
C1_LockStep ==
    /\ \A k \in SeriesNames : meta_data[k] = << Seed(k) >>
    /\ [](\A j, k \in SeriesNames : Len(meta_data[j]) = Len(meta_data[k]))
    /\ [][ LineRead =>
             \A k \in SeriesNames :
                Len(meta_data'[k]) = Len(meta_data[k])
                    + (IF time_since_accumulation + StepDt > 10 THEN 1 ELSE 0) ]_vars

\* Two grid ticks have fired.
C1_Witness == Samples = 3 /\ DOMAIN meta_data = SeriesNames

\* C2: at every sample index, time in water plus time out of water is the
\* total time.
C2_WaterSplitsTotal ==
    \A i \in 1..Samples :
        Series("time_elapsed_in_water")[i] + Series("time_elapsed_out_water")[i]
            = Series("time_elapsed_total")[i]

\* A later sample where both accumulators have been credited.
C2_Witness ==
    /\ Samples >= 2
    /\ Last(Series("time_elapsed_in_water")) > 0
    /\ Last(Series("time_elapsed_out_water")) > 0

\* C3: at every sample index, rc time plus autonomous time is at most the
\* total time.
C3_ModesWithinTotal ==
    \A i \in 1..Samples :
        Series("time_elapsed_rc")[i] + Series("time_elapsed_auto")[i]
            <= Series("time_elapsed_total")[i]

\* Both modes have been credited, and both flags are up.
C3_Witness ==
    /\ Last(Series("time_elapsed_rc")) > 0
    /\ Last(Series("time_elapsed_auto")) > 0
    /\ rc_on /\ is_autonomous

\* C4: time_elapsed_total is non-decreasing along the samples; its latest
\* sample is the timestamp of the last line applied; and the sample a grid
\* tick leaves behind is the timestamp of the line before the tick.
C4_TotalIsClock ==
    /\ [](\A i, j \in 1..Samples :
            i <= j => Series("time_elapsed_total")[i] <= Series("time_elapsed_total")[j])
    /\ [](status = "running" => Last(Series("time_elapsed_total")) = current_time)
    /\ [][ Len(meta_data'["time_elapsed_total"]) = Samples + 1 =>
             meta_data'["time_elapsed_total"][Samples] = current_time ]_vars

\* Three samples, each later than the one before.
C4_Witness ==
    /\ Samples = 3
    /\ 0 < Series("time_elapsed_total")[1]
    /\ Series("time_elapsed_total")[1] < Series("time_elapsed_total")[2]
    /\ Series("time_elapsed_total")[2] < Series("time_elapsed_total")[3]

\* C5: a line credits its dt and its distance to the rc pair alone when
\* rc_override is up (is_autonomous up or not), to the autonomous pair alone
\* when is_autonomous is up and rc_override is not, and to neither pair
\* when both are down; the flags are those after the line's own updates.
C5_ModeCredit ==
    [][ LineApplied =>
          LET d  == StepDt
              dd == Added("distance_traveled_total")
              rc == IF rc_on' THEN << d, dd >> ELSE << 0, 0 >>
              au == IF ~rc_on' /\ is_autonomous' THEN << d, dd >> ELSE << 0, 0 >>
          IN  /\ << Added("time_elapsed_rc"), Added("distance_traveled_rc") >> = rc
              /\ << Added("time_elapsed_auto"), Added("distance_traveled_auto") >> = au
      ]_vars

\* Both flags up and a pose line that moved the boat: the rc pair has the
\* distance, the autonomous pair has none.
C5_Witness ==
    /\ rc_on /\ is_autonomous
    /\ dt > 0 /\ distance_traveled > 0
    /\ Last(Series("distance_traveled_rc")) = distance_traveled
    /\ Last(Series("distance_traveled_auto")) = 0
    /\ Last(Series("time_elapsed_auto")) = 0

\* The value is the native boolean true or the string "true".
TrueInEitherEncoding(v) ==
    \/ (v.t = "bool" /\ v.v = TRUE)
    \/ (v.t = "str" /\ v.v = "true")

\* C6: after a line is applied, each of has_first_gps, is_autonomous and
\* rc_override that the line carries is true when its value is the native
\* boolean true or the string "true", and false for every other value.
C6_DualEncoding ==
    status = "running" =>
        \A i \in DOMAIN entry :
            /\ entry[i][1] = "has_first_gps" =>
                   has_first_gps = TrueInEitherEncoding(entry[i][2])
            /\ entry[i][1] = "is_autonomous" =>
                   is_autonomous = TrueInEitherEncoding(entry[i][2])
            /\ entry[i][1] = "rc_override" =>
                   rc_on = TrueInEitherEncoding(entry[i][2])

\* The entry carries an EC_GOSYS reading.
EcItem(item) == item[1] = "sensor" /\ item[2].type = "EC_GOSYS"
HasEc(items) == \E i \in DOMAIN items : EcItem(items[i])

\* C7: after a line with an EC_GOSYS reading ec is applied, in_water is
\* (ec > 100) whatever it was before; a line without one, and a line whose
\* payload does not decode, leave in_water as it was.
C7_WaterThreshold ==
    /\ [](status = "running" =>
            \A i \in DOMAIN entry :
                EcItem(entry[i]) => (in_water <=> entry[i][2].data > 100))
    /\ [][ LineRead /\ (status' = "aborted" \/ ~HasEc(entry')) =>
             in_water' = in_water ]_vars

\* The boat has been in water and a reading of exactly 100 took it out.
C7_Witness ==
    /\ status = "running"
    /\ OnlyKey(entry, "sensor") /\ EcItem(entry[1]) /\ entry[1][2].data = 100
    /\ ~in_water
    /\ Last(Series("time_elapsed_in_water")) > 0

\* The pair a home_pose string encodes: its first two floats.
HomeOf(v) == << FindFloats(v.v)[1], FindFloats(v.v)[2] >>

\* C8 as claimed: after a home_pose line is applied, home_pose and
\* current_pose are both the pair the line carries, has_first_gps up or not.
C8_HomePoseAlways ==
    status = "running" /\ OnlyKey(entry, "home_pose") =>
        /\ home_pose = HomeOf(entry[1][2])
        /\ current_pose = HomeOf(entry[1][2])

\* C8 amended: a home_pose line applied while has_first_gps is up sets
\* home_pose and current_pose to the pair it carries; applied while
\* has_first_gps is down it leaves both as they were.
C8_HomePoseAfterFix ==
    [][ LineApplied /\ OnlyKey(entry', "home_pose") =>
          IF has_first_gps
          THEN /\ home_pose' = HomeOf(entry'[1][2])
               /\ current_pose' = HomeOf(entry'[1][2])
          ELSE /\ home_pose' = home_pose
               /\ current_pose' = current_pose ]_vars

\* After a fix and a move, a home_pose line has brought current_pose back
\* to the new home.
C8_Witness ==
    /\ status = "running" /\ has_first_gps
    /\ OnlyKey(entry, "home_pose")
    /\ Last(Series("distance_traveled_total")) = 5
    /\ home_pose = << 3, 0 >> /\ current_pose = << 3, 0 >>

\* C9: a line with a pose and no has_first_gps key, applied while
\* has_first_gps is down, leaves current_pose, the pose window and its time
\* window as they were, carries the latest distance_from_home_location,
\* velocity_over_ground and distance_traveled_* samples unchanged, and adds
\* its dt to time_elapsed_total.
C9_PoseBeforeFix ==
    [][ /\ LineApplied
        /\ HasKey(entry', "pose") /\ ~HasKey(entry', "has_first_gps")
        /\ ~has_first_gps
        => /\ current_pose' = current_pose
           /\ pose_window' = pose_window
           /\ velocity_time_window' = velocity_time_window
           /\ velocity_initialized' = velocity_initialized
           /\ \A k \in { "distance_from_home_location", "velocity_over_ground",
                         "distance_traveled_total", "distance_traveled_rc",
                         "distance_traveled_auto" } :
                  Last(meta_data'[k]) = Last(meta_data[k])
           /\ Added("time_elapsed_total") = StepDt ]_vars

\* A pose line was applied with no fix yet, and time has passed.
C9_Witness ==
    /\ status = "running" /\ ~has_first_gps
    /\ OnlyKey(entry, "pose") /\ entry[1][2].p = << 3, 4 >>
    /\ current_pose = << 0, 0 >> /\ pose_pushes = 0
    /\ dt > 0 /\ Last(Series("time_elapsed_total")) > dt

\* The entry is a single BATTERY reading.
BatteryEntry(items) == OnlyKey(items, "sensor") /\ items[1][2].type = "BATTERY"

\* C10 as claimed: once a sample that is not a placeholder has been pushed
\* (a non-zero voltage; a pose at a non-zero time), the gate of its window
\* is open, the window full or not, and the push has written the fit into
\* the latest sample.
C10_GateOpensOnFirstSample ==
    /\ status = "running" /\ BatteryEntry(entry) /\ entry[1][2].data # 14 =>
          /\ voltage_drain_rate_initialized
          /\ Last(Series("battery_voltage_drain_rate"))
                = DrainRate(voltage_time_window, voltage_median_window)
    /\ status = "running" /\ OnlyKey(entry, "pose") /\ current_time # 0 =>
          /\ velocity_initialized
          /\ Last(Series("velocity_over_ground"))
                = Velocity(velocity_time_window, pose_window,
                           first_easting, first_northing)

\* C10 amended: the gate of a window opens at the first push that leaves a
\* non-zero value in the window's oldest slot (of the voltage values, of the
\* pose times), which takes as many pushes as the window holds (500, 50);
\* until then the series keeps its seed 0.0, and from then on every push
\* writes the fit of the whole window into the latest sample.
C10_GateOpensOnOldestSlot ==
    /\ voltage_drain_rate_initialized => voltage_pushes >= 500
    /\ voltage_pushes >= 1 /\ voltage_median_window[1] # 0 =>
          voltage_drain_rate_initialized
    /\ ~voltage_drain_rate_initialized =>
          \A i \in 1..Samples : Series("battery_voltage_drain_rate")[i] = << 0, 1 >>
    /\ voltage_drain_rate_initialized /\ status = "running" /\ BatteryEntry(entry) =>
          Last(Series("battery_voltage_drain_rate"))
             = DrainRate(voltage_time_window, voltage_median_window)
    /\ velocity_initialized => pose_pushes >= 50
    /\ pose_pushes >= 1 /\ velocity_time_window[1] # 0 => velocity_initialized
    /\ ~velocity_initialized =>
          \A i \in 1..Samples : Series("velocity_over_ground")[i] = << 0, 0, 1 >>
    /\ velocity_initialized /\ status = "running" /\ OnlyKey(entry, "pose") =>
          Last(Series("velocity_over_ground"))
             = Velocity(velocity_time_window, pose_window,
                        first_easting, first_northing)

\* The voltage gate is open, the window still holds a reading pushed before
\* it opened, and a fit other than 0.0 has been written.
C10_Witness ==
    /\ voltage_drain_rate_initialized
    /\ voltage_pushes > 500
    /\ Last(Series("battery_voltage_drain_rate"))[1] # 0

\* The velocity gate is open and a speed other than 0.0 has been written.
VelocityGateOpened ==
    /\ velocity_initialized
    /\ pose_pushes > 50
    /\ Last(Series("velocity_over_ground")) # << 0, 0, 1 >>

\* C11 as claimed: a gate opens while its window still holds a placeholder,
\* that is, on a push that is not yet the window's 500th (50th).
C11_GateOpensOverPlaceholders ==
    [][ /\ ~voltage_drain_rate_initialized /\ voltage_drain_rate_initialized'
           => voltage_pushes' < 500
        /\ ~velocity_initialized /\ velocity_initialized'
           => pose_pushes' < 50 ]_vars

\* C11 amended: no gate does; while a window holds a placeholder its gate
\* is shut.  What an open gate can still see is a pushed sample that is itself
\* zero (a reading of 14 V; a pose at timestamp 0).
C11_NoPlaceholderWhenOpen ==
    /\ voltage_pushes < 500 => ~voltage_drain_rate_initialized
    /\ pose_pushes < 50 => ~velocity_initialized

\* The voltage gate is open over a window of 500 pushed samples, one of
\* them a zero.
C11_Witness ==
    /\ voltage_drain_rate_initialized
    /\ voltage_pushes >= 500
    /\ \E i \in DOMAIN voltage_median_window : voltage_median_window[i] = 0
    /\ voltage_median_window[1] # 0

\* A step whose line fired the grid tick.
TickStep == Len(meta_data'["time_elapsed_total"]) = Samples + 1
\* The timestamp of the line that fired the last tick (0 before any).
LastTickTime == current_time - time_since_accumulation

\* C12 as claimed: the samples lie on a fixed 10 s grid, so after the lines
\* up to timestamp T every series holds the seed and one entry for each
\* 10 s boundary passed.
C12_FixedGrid == Samples = 1 + current_time \div 10

\* C12 amended: the grid is driven by the lines.  A tick fires on the first
\* line that comes more than 10 s after the line of the tick before it (after
\* time 0 for the first), one tick for a line however late it is; so
\* consecutive ticks are more than 10 s apart, not exactly 10 s, and after
\* the lines up to timestamp T a series holds at most one entry for each
\* 10 s passed plus the seed, how many depending on the spacing of the lines.
C12_LineDrivenGrid ==
    /\ [](10 * (Samples - 1) + time_since_accumulation <= current_time)
    /\ [](Samples > 1 => 10 * (Samples - 1) < current_time)
    /\ [][ LineRead =>
             (TickStep <=> current_time' - LastTickTime > 10) ]_vars

\* One line 25 s in and one 50 s in: two ticks, where a 10 s grid has five.
C12_Witness == current_time = 50 /\ Samples = 3 /\ lineno = 2

\* The four series parse() creates and never writes.
ReservedSeries == { "cumulative_motor_action_total", "cumulative_motor_action_rc",
                    "cumulative_motor_action_auto", "rc_override_switch_count" }

\* C13: the reserved series hold 0 at every index, whatever lines were read.
C13_ReservedStayZero ==
    \A k \in ReservedSeries : \A i \in DOMAIN Series(k) : Series(k)[i] = 0

\* A cmd line read with the override switched on and a tick behind it.
C13_Witness == OnlyKey(entry, "cmd") /\ rc_on /\ Samples >= 2

\* C14: a line whose payload json.loads rejects ends parse() in an error at
\* that line: the step that reads it aborts, and from the aborted state no
\* step follows, neither a later line nor the plots of the series.
C14_FailFast ==
    [][ /\ BadLine => status' = "aborted" /\ lineno' = lineno + 1
        /\ status # "aborted"
        /\ status' = "shown" => status = "running" ]_vars

\* parse() aborted on the second line of a log, samples already stored.
C14_Witness == status = "aborted" /\ lineno = 2 /\ Samples >= 2 /\ lineno < MaxLines

\* C15: a line ticks exactly when the time accumulated since the last tick,
\* its own dt added, is strictly above the step (equal to the step it does
\* not); the tick resets the accumulated time to 0, and there is one tick for
\* a line at most; so the accumulated time stays within 0 .. step.
C15_TickRule ==
    /\ [](0 <= time_since_accumulation /\ time_since_accumulation <= TIME_STEP)
    /\ [][ LineRead =>
             LET sum == time_since_accumulation + StepDt
                 len == Len(meta_data'["time_elapsed_total"])
             IN  /\ sum > TIME_STEP => len = Samples + 1 /\ time_since_accumulation' = 0
                 /\ sum <= TIME_STEP => len = Samples /\ time_since_accumulation' = sum ]_vars

\* A line 25 s in ticked once; two lines 5 s apart then brought the
\* accumulated time to the step itself, and no tick came.
C15_Witness == time_since_accumulation = TIME_STEP /\ Samples = 2 /\ current_time = 35

\* C16: the series only grow at the end.  A step leaves a series its length
\* or adds one entry; every entry below the last is left as it was, and when
\* an entry is added the entry that was last is left as it was too, so only
\* the latest sample is ever written.
C16_AppendOnly ==
    [][ \A k \in SeriesNames :
          LET old == meta_data[k]
              new == meta_data'[k]
          IN  /\ Len(new) \in { Len(old), Len(old) + 1 }
              /\ \A i \in 1 .. Len(old) - 1 : new[i] = old[i]
              /\ Len(new) = Len(old) + 1 => new[Len(old)] = old[Len(old)] ]_vars

\* A reading of 16 V was sampled, and after a tick a reading of 14 V was
\* written over the copy of it.
C16_Witness == Series("battery_voltage") = << 2, 0 >>

\* The series a line's dt is credited to.
TimeSeries == { "time_elapsed_total", "time_elapsed_rc", "time_elapsed_auto",
                "time_elapsed_in_water", "time_elapsed_out_water" }

\* C17: within a line the tick comes first, the flag and water updates next,
\* the accumulation last.  So the line that fires a tick leaves the sample
\* that was last as it stood and puts its dt in the new one, and the line
\* that flips a flag or the water state has its own dt credited by the
\* value it flipped to.
C17_OrderWithinLine ==
    [][ LineApplied =>
          LET n == Samples
              d == StepDt
          IN  /\ TickStep =>
                   /\ \A k \in TimeSeries : meta_data'[k][n] = meta_data[k][n]
                   /\ meta_data'["time_elapsed_total"][n + 1]
                        = meta_data["time_elapsed_total"][n] + d
              /\ rc_on' # rc_on =>
                   Added("time_elapsed_rc") = IF rc_on' THEN d ELSE 0
              /\ is_autonomous' # is_autonomous /\ ~rc_on' =>
                   Added("time_elapsed_auto") = IF is_autonomous' THEN d ELSE 0
              /\ in_water' # in_water =>
                   /\ Added("time_elapsed_in_water") = IF in_water' THEN d ELSE 0
                   /\ Added("time_elapsed_out_water") = IF in_water' THEN 0 ELSE d
      ]_vars

\* The line that switched the override on came 25 s in: it ticked, and its
\* 25 s are rc time in the new sample.
C17_Witness ==
    /\ OnlyKey(entry, "rc_override") /\ rc_on /\ status = "running"
    /\ Series("time_elapsed_rc") = << 0, 25 >>
    /\ Series("time_elapsed_total") = << 0, 25 >>

\* w2 is w with its oldest entry removed and x appended.
Shifted(w, w2, x) ==
    /\ Len(w2) = Len(w)
    /\ \A i \in 1 .. Len(w) - 1 : w2[i] = w[i + 1]
    /\ w2[Len(w)] = x

\* C18: the voltage value and time windows hold 500 entries and the pose and
\* velocity-time windows 50, always.  A BATTERY line shifts its reading less
\* 14 V into the value window and its timestamp into the time window; a pose
\* line after the first fix shifts its pose and its timestamp into the pose
\* and velocity-time windows; value and time are shifted in the same step,
\* so the two windows stay aligned index by index, and a step that pushes
\* nothing leaves a window as it was.
C18_WindowShape ==
    /\ [](/\ Len(voltage_median_window) = 500 /\ Len(voltage_time_window) = 500
          /\ Len(pose_window) = 50 /\ Len(velocity_time_window) = 50)
    /\ [][ /\ LineApplied /\ BatteryEntry(entry') =>
                /\ voltage_pushes' = voltage_pushes + 1
                /\ Shifted(voltage_median_window, voltage_median_window',
                           entry'[1][2].data - 14)
                /\ Shifted(voltage_time_window, voltage_time_window', current_time')
           /\ LineApplied /\ OnlyKey(entry', "pose") /\ has_first_gps =>
                /\ pose_pushes' = pose_pushes + 1
                /\ Shifted(pose_window, pose_window',
                           << entry'[1][2].p[1], entry'[1][2].p[2] >>)
                /\ Shifted(velocity_time_window, velocity_time_window', current_time')
           /\ voltage_pushes' = voltage_pushes =>
                UNCHANGED << voltage_median_window, voltage_time_window >>
           /\ pose_pushes' = pose_pushes =>
                UNCHANGED << pose_window, velocity_time_window >> ]_vars

\* The voltage windows have rolled: more readings were pushed than the
\* window holds, the oldest kept is a 16 V reading, the newest a 14 V one
\* pushed later.
C18_Witness ==
    /\ voltage_pushes > 500
    /\ voltage_median_window[1] = 2 /\ Last(voltage_median_window) = 0
    /\ voltage_time_window[1] < Last(voltage_time_window)

\* x is the k-th smallest entry of w.
Rank(w, x, k) ==
    /\ Cardinality({ i \in DOMAIN w : w[i] < x }) < k
    /\ Cardinality({ i \in DOMAIN w : w[i] <= x }) >= k

\* m is the median of w: its middle entry by size, or half the sum of the
\* two middle entries when w has an even number of them.
IsMedianOf(m, w) ==
    LET n    == Len(w)
        vals == { w[i] : i \in DOMAIN w }
    IN  IF n % 2 = 1
        THEN \E a \in vals : Rank(w, a, (n + 1) \div 2) /\ m = a
        ELSE \E a, b \in vals :
                /\ Rank(w, a, n \div 2) /\ Rank(w, b, n \div 2 + 1)
                /\ 2 * m = a + b

\* C19: after a BATTERY line the latest battery_voltage is the reading less
\* 14 V, and the latest battery_voltage_median is the median of the whole
\* voltage window as it stands after the push, the zeros it was built with
\* counted like any entry; a window of 1, 2, 3, 4, 5 has median 3.
C19_LatestVoltage ==
    /\ status = "running" /\ BatteryEntry(entry) =>
         /\ Last(Series("battery_voltage")) = entry[1][2].data - 14
         /\ IsMedianOf(Last(Series("battery_voltage_median")), voltage_median_window)
    /\ Median(<< 1, 2, 3, 4, 5 >>) = 3

\* The first reading, 16 V: the latest voltage is 2, the median over 499
\* zeros and that reading is 0.
C19_Witness ==
    /\ status = "running" /\ BatteryEntry(entry) /\ voltage_pushes = 1
    /\ Last(Series("battery_voltage")) = 2
    /\ Last(Series("battery_voltage_median")) = 0

====
